---- MODULE Spec2Model ----
(***************************************************************************)
(* A model of the two HTTP clients of pricedb-io-npm: PriceDBClient        *)
(* (packages/pricedb-client/src/client.ts) and SpellsClient                *)
(* (packages/spells-client/src/client.ts).                                 *)
(*                                                                         *)
(* One client instance is constructed in Init.  Its callers start calls    *)
(* of the endpoint methods; every call runs the private request() method,  *)
(* whose awaits split it in steps that interleave with the steps of the    *)
(* other calls, with the timers of the event loop and with the server.     *)
(*                                                                         *)
(* Strings that callers supply are sequences of one-character strings, so  *)
(* that encodeURIComponent and URLSearchParams can be computed character   *)
(* by character; what goes on the wire is a TLA+ string.  An optional      *)
(* value is <<>> (undefined) or <<v>>.                                     *)
(***************************************************************************)
EXTENDS Integers, Sequences, FiniteSets, TLC

(***************************************************************************)
(* Bounds of the model.                                                    *)
(***************************************************************************)
\* Calls a run starts on the client instance (in flight together or not).
MaxCalls == 2

Calls == 1..MaxCalls

Undefined == <<>>

Some(v) == <<v>>

IsDefined(o) == o # <<>>

(***************************************************************************)
(* Strings.                                                                *)
(***************************************************************************)
\* The string of a sequence of characters.
RECURSIVE Str(_)
Str(cs) == IF cs = <<>> THEN "" ELSE Head(cs) \o Str(Tail(cs))

Digit(d) ==
  CASE d = 0 -> "0" [] d = 1 -> "1" [] d = 2 -> "2" [] d = 3 -> "3"
    [] d = 4 -> "4" [] d = 5 -> "5" [] d = 6 -> "6" [] d = 7 -> "7"
    [] d = 8 -> "8" [] d = 9 -> "9"

\* Number.prototype.toString() of a non-negative integer, as a string.
RECURSIVE NumToString(_)
NumToString(n) ==
  IF n < 10 THEN Digit(n) ELSE NumToString(n \div 10) \o Digit(n % 10)

\* The same digits as characters (a caller-side string of the number).
RECURSIVE NumChars(_)
NumChars(n) ==
  IF n < 10 THEN <<Digit(n)>> ELSE Append(NumChars(n \div 10), Digit(n % 10))

\* Percent-encodings of the characters the model's inputs use.
PercentOf(ch) ==
  CASE ch = " " -> "%20" [] ch = "!" -> "%21" [] ch = "#" -> "%23"
    [] ch = "%" -> "%25" [] ch = "&" -> "%26" [] ch = "+" -> "%2B"
    [] ch = "," -> "%2C" [] ch = "/" -> "%2F" [] ch = ";" -> "%3B"
    [] ch = "=" -> "%3D" [] ch = "?" -> "%3F" [] ch = "~" -> "%7E"

Lower == {"a", "b", "c", "d", "e", "f", "g", "h", "i", "j", "k", "l", "m",
  "n", "o", "p", "q", "r", "s", "t", "u", "v", "w", "x", "y", "z"}

Upper == {"A", "B", "C", "D", "E", "F", "G", "H", "I", "J", "K", "L", "M",
  "N", "O", "P", "Q", "R", "S", "T", "U", "V", "W", "X", "Y", "Z"}

Digits == {"0", "1", "2", "3", "4", "5", "6", "7", "8", "9"}

Alnum == Lower \cup Upper \cup Digits

\* encodeURIComponent leaves A-Z a-z 0-9 - _ . ! ~ * ' ( ) alone.
UriUnreserved == Alnum \cup {"-", "_", ".", "!", "~", "*", "'", "(", ")"}

RECURSIVE encodeURIComponent(_)
encodeURIComponent(cs) ==
  IF cs = <<>> THEN ""
  ELSE (IF Head(cs) \in UriUnreserved THEN Head(cs) ELSE PercentOf(Head(cs)))
       \o encodeURIComponent(Tail(cs))

\* The application/x-www-form-urlencoded serializer of URLSearchParams leaves
\* A-Z a-z 0-9 * - . _ alone and writes a space as +.
FormUnreserved == Alnum \cup {"*", "-", ".", "_"}

RECURSIVE FormEncode(_)
FormEncode(cs) ==
  IF cs = <<>> THEN ""
  ELSE (IF Head(cs) \in FormUnreserved THEN Head(cs)
        ELSE IF Head(cs) = " " THEN "+" ELSE PercentOf(Head(cs)))
       \o FormEncode(Tail(cs))

\* URLSearchParams: a list of <<name, value>> pairs, the name a literal of
\* the code and the value a sequence of characters.
NewURLSearchParams == <<>>

ParamsAppend(params, name, value) == Append(params, <<name, value>>)

RECURSIVE ParamsToString(_)
ParamsToString(params) ==
  IF params = <<>> THEN ""
  ELSE LET p == Head(params)
           rest == Tail(params)
       IN  p[1] \o "=" \o FormEncode(p[2])
           \o (IF rest = <<>> THEN "" ELSE "&" \o ParamsToString(rest))

\* JSON.stringify of a string without quote, backslash or control characters.
JsonString(cs) == "\"" \o Str(cs) \o "\""

RECURSIVE JsonStringList(_)
JsonStringList(ss) ==
  IF ss = <<>> THEN ""
  ELSE JsonString(Head(ss))
       \o (IF Tail(ss) = <<>> THEN "" ELSE "," \o JsonStringList(Tail(ss)))

RECURSIVE JsonNumberList(_)
JsonNumberList(ns) ==
  IF ns = <<>> THEN ""
  ELSE NumToString(Head(ns))
       \o (IF Tail(ns) = <<>> THEN "" ELSE "," \o JsonNumberList(Tail(ns)))

\* A JavaScript object used as a map: a function from its keys.
EmptyObject == [k \in {} |-> ""]

\* The object spread {...a, ...b}: b's entries over a's.
Spread(a, b) ==
  [k \in DOMAIN a \cup DOMAIN b |-> IF k \in DOMAIN b THEN b[k] ELSE a[k]]

\* The truthiness of an optional number ...
TruthyNum(o) == IsDefined(o) /\ o[1] # 0

\* ... and of an optional string.
TruthyStr(o) == IsDefined(o) /\ o[1] # <<>>

(***************************************************************************)
(* The client instance.                                                    *)
(***************************************************************************)
VARIABLES
  ctor,     \* the class constructed and the config object given to it
  baseUrl,  \* this.baseUrl
  timeout,  \* this.timeout
  headers,  \* this.headers
  callerConfig  \* the config object as its caller has it now (object), and
                \* how many requests had been sent when the caller last
                \* changed its headers map (headersChangedAt)

\* The calls made on the instance.
VARIABLES
  pc,        \* pc[c]: where call c is: "idle" (not started), "awaitFetch",
             \* "awaitJson" or "done"
  input,     \* input[c]: the method called and its arguments
  timer,     \* timer[c]: the timer of setTimeout: its state st, the delay
             \* it was set with and the time left until it is due, in ms
  aborted,   \* aborted[c]: controller.signal.aborted of the call's controller
  response,  \* response[c]: what the server has sent: [status, body]
  raised,    \* raised[c]: the error the network layer or the parser raised
  outcome,   \* outcome[c]: what the caller got: a returned value or an error
  sent       \* the requests fetch has put on the wire, in order: the call,
             \* the URL given to fetch, the path and query requested, the init

Kinds == {"PriceDBClient", "SpellsClient"}

DefaultBaseUrl(kind) ==
  IF kind = "PriceDBClient" THEN "https://pricedb.io"
  ELSE "https://spell.pricedb.io"

DefaultTimeout == 10000

DefaultHeaders == [k \in {"Content-Type"} |-> "application/json"]

\* A constructor that spreads the given headers first and its default last.
ConstructorDefaultLast(kind, config) ==
  [baseUrl |-> IF IsDefined(config.baseUrl) /\ config.baseUrl[1] # ""
               THEN config.baseUrl[1] ELSE DefaultBaseUrl(kind),
   timeout |-> IF TruthyNum(config.timeout)
               THEN config.timeout[1] ELSE DefaultTimeout,
   headers |-> Spread(IF IsDefined(config.headers) THEN config.headers[1]
                      ELSE EmptyObject,
                      DefaultHeaders)]

\* The fields of the instance the constructor builds from config; a field of
\* config that is absent is Undefined.
Constructor(kind, config) ==
  [baseUrl |-> IF IsDefined(config.baseUrl) /\ config.baseUrl[1] # ""
               THEN config.baseUrl[1] ELSE DefaultBaseUrl(kind),
   timeout |-> IF TruthyNum(config.timeout)
               THEN config.timeout[1] ELSE DefaultTimeout,
   headers |-> Spread(DefaultHeaders,
                      IF IsDefined(config.headers) THEN config.headers[1]
                      ELSE EmptyObject)]

(***************************************************************************)
(* The endpoint methods.  Each gives the arguments of its call of          *)
(* request(): the endpoint and the RequestInit options.                    *)
(***************************************************************************)
NoOptions == [method |-> Undefined, body |-> Undefined, headers |-> Undefined]

Get(endpoint) == [endpoint |-> endpoint, options |-> NoOptions]

Post(endpoint, body) ==
  [endpoint |-> endpoint,
   options |-> [method |-> Some("POST"), body |-> Some(body),
                headers |-> Undefined]]

WithQuery(path, queryString) ==
  IF queryString # "" THEN path \o "?" \o queryString ELSE path

\* PriceDBClient
PriceDBHealth == Get("/api/")

getItems == Get("/api/items")

getLatestPrices == Get("/api/latest-prices")

getPrices(options) ==
  LET p0 == NewURLSearchParams
      p1 == IF TruthyNum(options.limit)
            THEN ParamsAppend(p0, "limit", NumChars(options.limit[1])) ELSE p0
      p2 == IF TruthyNum(options.offset)
            THEN ParamsAppend(p1, "offset", NumChars(options.offset[1])) ELSE p1
  IN  Get(WithQuery("/api/prices", ParamsToString(p2)))

getItem(sku) == Get("/api/item/" \o encodeURIComponent(sku))

getItemHistory(sku, options) ==
  LET p0 == NewURLSearchParams
      p1 == IF TruthyNum(options.start)
            THEN ParamsAppend(p0, "start", NumChars(options.start[1])) ELSE p0
      p2 == IF TruthyNum(options.end)
            THEN ParamsAppend(p1, "end", NumChars(options.end[1])) ELSE p1
  IN  Get(WithQuery("/api/item-history/" \o encodeURIComponent(sku),
                    ParamsToString(p2)))

getItemStats(sku) == Get("/api/item-stats/" \o encodeURIComponent(sku))

\* A bulk lookup that puts the identifiers in the query string of a GET.
getItemsBulkAsQuery(skus) ==
  Get("/api/items-bulk?skus=" \o JsonStringList(skus))

getItemsBulk(skus) ==
  Post("/api/items-bulk", "{\"skus\":[" \o JsonStringList(skus) \o "]}")

getSnapshot(timestamp) == Get("/api/snapshot/" \o NumToString(timestamp))

search(options) ==
  LET p0 == NewURLSearchParams
      p1 == ParamsAppend(p0, "q", options.query)
      p2 == IF TruthyNum(options.limit)
            THEN ParamsAppend(p1, "limit", NumChars(options.limit[1])) ELSE p1
  IN  Get("/api/search?" \o ParamsToString(p2))

compareItems(sku1, sku2) ==
  Get("/api/compare/" \o encodeURIComponent(sku1) \o "/"
      \o encodeURIComponent(sku2))

getCacheStats == Get("/api/cache-stats")

\* A getGraphUrl that builds on the URL the client fetched last.
getGraphUrlOnLastUrl(sku, options) ==
  LET p0 == NewURLSearchParams
      p1 == IF options.header = Some(FALSE)
            THEN ParamsAppend(p0, "header", <<"f", "a", "l", "s", "e">>) ELSE p0
      p2 == IF TruthyNum(options.height)
            THEN ParamsAppend(p1, "height", NumChars(options.height[1])) ELSE p1
      p3 == IF TruthyStr(options.width)
            THEN ParamsAppend(p2, "width", options.width[1]) ELSE p2
      base == IF sent = <<>> THEN baseUrl ELSE sent[Len(sent)].url
  IN  WithQuery(base \o "/api/graph/" \o encodeURIComponent(sku),
                ParamsToString(p3))

\* The one method that calls no request(): it returns the URL.
getGraphUrl(sku, options) ==
  LET p0 == NewURLSearchParams
      p1 == IF options.header = Some(FALSE)
            THEN ParamsAppend(p0, "header", <<"f", "a", "l", "s", "e">>) ELSE p0
      p2 == IF TruthyNum(options.height)
            THEN ParamsAppend(p1, "height", NumChars(options.height[1])) ELSE p1
      p3 == IF TruthyStr(options.width)
            THEN ParamsAppend(p2, "width", options.width[1]) ELSE p2
  IN  WithQuery(baseUrl \o "/api/graph/" \o encodeURIComponent(sku),
                ParamsToString(p3))

\* SpellsClient
\* A predict that posts its options as the POST-style prediction does.
predictAsPost(options) ==
  Post("/api/spell/predict",
       "{\"spells\":" \o JsonString(options.spells)
       \o ",\"item\":" \o JsonString(options.item) \o "}")

predict(options) ==
  Get("/api/spell/predict?"
      \o ParamsToString(<<<<"spells", options.spells>>, <<"item", options.item>>>>))

\* JSON.stringify(options) of an options object written item_name first.
predictSpellItem(options) ==
  Post("/api/spell/predict-spell-item",
       "{\"item_name\":" \o JsonString(options.item_name)
       \o ",\"spell_ids\":[" \o JsonNumberList(options.spell_ids) \o "]}")

getSpellValue(ids) ==
  Get("/api/spell/spell-value?" \o ParamsToString(<<<<"ids", ids>>>>))

getSpellAnalytics == Get("/api/spell/spell-analytics")

getItemSpellPremium(options) ==
  Get("/api/spell/item-spell-premium?"
      \o ParamsToString(<<<<"item", options.item>>, <<"ids", options.ids>>>>))

spellIdToName(id) ==
  Get("/api/spell/spell-id-to-name?" \o ParamsToString(<<<<"id", NumChars(id)>>>>))

spellNameToId(name) ==
  Get("/api/spell/spell-name-to-id?" \o ParamsToString(<<<<"name", name>>>>))

getSpells == Get("/api/spell/spells")

getFetcherStatus == Get("/api/spell/fetcher-status")

SpellsHealth == Get("/api/spell/health")

getStats == Get("/api/stats")

getStatusProxy == Get("/api/spell/status-proxy")

\* What a caller does: a method m of the client's class with arguments p.
EndpointCall(kind, inp) ==
  IF kind = "PriceDBClient" THEN
    CASE inp.m = "health" -> PriceDBHealth
      [] inp.m = "getItems" -> getItems
      [] inp.m = "getLatestPrices" -> getLatestPrices
      [] inp.m = "getPrices" -> getPrices(inp.p)
      [] inp.m = "getItem" -> getItem(inp.p.sku)
      [] inp.m = "getItemHistory" -> getItemHistory(inp.p.sku, inp.p.options)
      [] inp.m = "getItemStats" -> getItemStats(inp.p.sku)
      [] inp.m = "getItemsBulk" -> getItemsBulk(inp.p.skus)
      [] inp.m = "getSnapshot" -> getSnapshot(inp.p.timestamp)
      [] inp.m = "search" -> search(inp.p)
      [] inp.m = "compareItems" -> compareItems(inp.p.sku1, inp.p.sku2)
      [] inp.m = "getCacheStats" -> getCacheStats
  ELSE
    CASE inp.m = "predict" -> predict(inp.p)
      [] inp.m = "predictSpellItem" -> predictSpellItem(inp.p)
      [] inp.m = "getSpellValue" -> getSpellValue(inp.p.ids)
      [] inp.m = "getSpellAnalytics" -> getSpellAnalytics
      [] inp.m = "getItemSpellPremium" -> getItemSpellPremium(inp.p)
      [] inp.m = "spellIdToName" -> spellIdToName(inp.p.id)
      [] inp.m = "spellNameToId" -> spellNameToId(inp.p.name)
      [] inp.m = "getSpells" -> getSpells
      [] inp.m = "getFetcherStatus" -> getFetcherStatus
      [] inp.m = "health" -> SpellsHealth
      [] inp.m = "getStats" -> getStats
      [] inp.m = "getStatusProxy" -> getStatusProxy

(***************************************************************************)
(* The calls.                                                              *)
(***************************************************************************)
vars == <<ctor, baseUrl, timeout, headers, callerConfig, pc, input, timer,
          aborted, response, raised, outcome, sent>>

config_vars == <<ctor, baseUrl, timeout, headers, callerConfig>>

\* The server's answers.
Statuses == {200, 304, 404, 429, 500}

ItemJson ==
  "{\"name\":\"Test Item\",\"sku\":\"1;6\",\"buy\":{\"keys\":1,\"metal\":2},\"sell\":{\"keys\":1,\"metal\":3},\"source\":\"x\",\"time\":1700000000}"

Bodies == {ItemJson, "[]", "<html>"}

\* A status check that lets redirections through.
ResponseOkBelow400(status) == status >= 200 /\ status < 400

\* Response.ok
ResponseOk(status) == status >= 200 /\ status <= 299

\* JSON.parse of the bodies the model's server sends.
JsonParse(body) ==
  CASE body = ItemJson ->
         [ok |-> TRUE,
          value |-> [name |-> "Test Item", sku |-> "1;6",
                     buy |-> [keys |-> 1, metal |-> 2],
                     sell |-> [keys |-> 1, metal |-> 3],
                     source |-> "x", time |-> 1700000000]]
    [] body = "[]" -> [ok |-> TRUE, value |-> <<>>]
    [] OTHER ->
         [ok |-> FALSE,
          error |-> [name |-> "SyntaxError",
                     message |-> "Unexpected token in JSON: " \o body]]

HttpError(status) ==
  [name |-> "Error", message |-> "HTTP error! status: " \o NumToString(status)]

AbortError == [name |-> "AbortError", message |-> "This operation was aborted"]

NetworkError == [name |-> "TypeError", message |-> "fetch failed"]

Return(value) == [type |-> "return", value |-> value]

Throw(error) == [type |-> "throw", error |-> error]

NoTimer == [st |-> "none", delay |-> 0, left |-> 0]

\* setTimeout(callback, delay): the timer is due when delay ms have passed.
setTimeout(delay) == [st |-> "armed", delay |-> delay, left |-> delay]

\* A clearTimeout that misses the timer (it is given another id).
clearTimeoutMissing(t) == t

\* clearTimeout(timeoutId): a pending timer is dropped; one that has fired
\* or was cleared stays as it is.
clearTimeout(t) ==
  IF t.st = "armed" THEN [t EXCEPT !.st = "cleared", !.left = 0] ELSE t

\* A request() that builds on the URL it fetched last.
FetchUrlOnPrevious(endpoint) ==
  IF sent = <<>> THEN baseUrl \o endpoint
  ELSE sent[Len(sent)].url \o endpoint

\* The URL request() fetches.
FetchUrl(endpoint) == baseUrl \o endpoint

\* The URL parser of fetch, on the endpoints of the model: what it makes the
\* path and query of the request.  A path segment ".." is dropped together
\* with the segment before it; an endpoint without such a segment is kept
\* as it is.
UrlParsePath(endpoint) ==
  CASE endpoint = "/api/item/.." -> "/api/"
    [] endpoint = "/api/compare/../1%3B6" -> "/api/1%3B6"
    [] OTHER -> endpoint

\* The init object request() gives fetch, as the request on the wire: the
\* method is GET unless options name one.
FetchInit(options) ==
  [method |-> IF IsDefined(options.method) THEN options.method[1] ELSE "GET",
   body |-> options.body,
   headers |-> Spread(headers,
                      IF IsDefined(options.headers) THEN options.headers[1]
                      ELSE EmptyObject)]

\* A request() that keeps the URL it built in this.baseUrl.
requestStoringUrl(c, endpoint, options) ==
  /\ aborted' = [aborted EXCEPT ![c] = FALSE]
  /\ timer' = [timer EXCEPT ![c] = setTimeout(timeout)]
  /\ baseUrl' = FetchUrl(endpoint)
  /\ sent' = Append(sent, [call |-> c, url |-> FetchUrl(endpoint),
                           path |-> UrlParsePath(endpoint),
                           init |-> FetchInit(options)])
  /\ pc' = [pc EXCEPT ![c] = "awaitFetch"]
  /\ UNCHANGED <<ctor, timeout, headers, callerConfig, response, raised,
                 outcome>>

\* A request() that sets no timer for its fetch.
requestWithoutTimer(c, endpoint, options) ==
  /\ aborted' = [aborted EXCEPT ![c] = FALSE]
  /\ sent' = Append(sent, [call |-> c, url |-> FetchUrl(endpoint),
                           path |-> UrlParsePath(endpoint),
                           init |-> FetchInit(options)])
  /\ pc' = [pc EXCEPT ![c] = "awaitFetch"]
  /\ UNCHANGED <<config_vars, timer, response, raised, outcome>>

\* request() up to its first await: the controller, the timer, the fetch.
request(c, endpoint, options) ==
  /\ aborted' = [aborted EXCEPT ![c] = FALSE]
  /\ timer' = [timer EXCEPT ![c] = setTimeout(timeout)]
  /\ sent' = Append(sent, [call |-> c, url |-> FetchUrl(endpoint),
                           path |-> UrlParsePath(endpoint),
                           init |-> FetchInit(options)])
  /\ pc' = [pc EXCEPT ![c] = "awaitFetch"]
  /\ UNCHANGED <<config_vars, response, raised, outcome>>

\* An end of the call that leaves the timer pending.
FinallyNoClear(c, result) ==
  /\ pc' = [pc EXCEPT ![c] = "done"]
  /\ outcome' = [outcome EXCEPT ![c] = Some(result)]
  /\ UNCHANGED timer

\* The finally block and the end of the call: the timer is cleared and the
\* caller's promise settles with result.
Finally(c, result) ==
  /\ timer' = [timer EXCEPT ![c] = clearTimeout(timer[c])]
  /\ pc' = [pc EXCEPT ![c] = "done"]
  /\ outcome' = [outcome EXCEPT ![c] = Some(result)]

\* A return that gives the caller an empty list whatever was parsed.
ReturnJsonEmptied(value) == Return(<<>>)

\* return await response.json(): the parsed body is what the caller gets.
ReturnJson(value) == Return(value)

\* A catch clause that throws an error of its own.
RethrowWrapped(error) ==
  Throw([name |-> "Error", message |-> "Request failed: " \o error.message])

\* An error thrown inside the try block reaches the caller as it is (there
\* is no catch clause).
Rethrow(error) == Throw(error)

\* A getGraphUrl that fetches the URL it built, as the endpoint methods do.
InvokeFetchingGraph(c, inp) ==
  /\ pc[c] = "idle"
  /\ \A d \in Calls : d < c => pc[d] # "idle"
  /\ input' = [input EXCEPT ![c] = Some(inp)]
  /\ IF inp.m = "getGraphUrl"
     THEN request(c, "/api/graph/" \o encodeURIComponent(inp.p.sku), NoOptions)
     ELSE LET call == EndpointCall(ctor.kind, inp)
          IN  request(c, call.endpoint, call.options)

\* The caller calls a method of the client: calls are numbered as they
\* start.  An endpoint method runs request() up to its first await;
\* getGraphUrl returns its string at once.
Invoke(c, inp) ==
  /\ pc[c] = "idle"
  /\ \A d \in Calls : d < c => pc[d] # "idle"
  /\ input' = [input EXCEPT ![c] = Some(inp)]
  /\ IF inp.m = "getGraphUrl"
     THEN /\ pc' = [pc EXCEPT ![c] = "done"]
          /\ outcome' = [outcome EXCEPT ![c] =
                           Some(Return(getGraphUrl(inp.p.sku, inp.p.options)))]
          /\ UNCHANGED <<config_vars, timer, aborted, response, raised, sent>>
     ELSE LET call == EndpointCall(ctor.kind, inp)
          IN  request(c, call.endpoint, call.options)

\* A request() that fetches again when the status is not a success.
FetchResolveRetrying(c, status) ==
  /\ pc[c] = "awaitFetch"
  /\ ~aborted[c]
  /\ IF ~ResponseOk(status)
     THEN /\ sent' = Append(sent, CHOOSE r \in {sent[i] : i \in 1..Len(sent)} :
                                    r.call = c)
          /\ UNCHANGED <<pc, timer, outcome, response>>
     ELSE /\ response' = [response EXCEPT ![c] = Some([status |-> status,
                                                       body |-> Undefined])]
          /\ pc' = [pc EXCEPT ![c] = "awaitJson"]
          /\ UNCHANGED <<timer, outcome, sent>>
  /\ UNCHANGED <<config_vars, input, aborted, raised>>

\* A request() that clears its timer as soon as fetch has resolved.
FetchResolveClearingTimer(c, status) ==
  /\ pc[c] = "awaitFetch"
  /\ ~aborted[c]
  /\ response' = [response EXCEPT ![c] = Some([status |-> status,
                                               body |-> Undefined])]
  /\ timer' = [timer EXCEPT ![c] = clearTimeout(timer[c])]
  /\ IF ~ResponseOk(status)
     THEN /\ pc' = [pc EXCEPT ![c] = "done"]
          /\ outcome' = [outcome EXCEPT ![c] = Some(Throw(HttpError(status)))]
     ELSE /\ pc' = [pc EXCEPT ![c] = "awaitJson"]
          /\ UNCHANGED outcome
  /\ UNCHANGED <<config_vars, input, aborted, raised, sent>>

\* A request() that reads the body of every response, whatever its status.
FetchResolveReadingBody(c, status) ==
  /\ pc[c] = "awaitFetch"
  /\ ~aborted[c]
  /\ response' = [response EXCEPT ![c] = Some([status |-> status,
                                               body |-> Undefined])]
  /\ pc' = [pc EXCEPT ![c] = "awaitJson"]
  /\ UNCHANGED <<timer, outcome>>
  /\ UNCHANGED <<config_vars, input, aborted, raised, sent>>

\* The response's status line and headers arrive: fetch resolves, and
\* request() goes on to the status check and to response.json().
FetchResolve(c, status) ==
  /\ pc[c] = "awaitFetch"
  /\ ~aborted[c]
  /\ response' = [response EXCEPT ![c] = Some([status |-> status,
                                               body |-> Undefined])]
  /\ IF ~ResponseOk(status)
     THEN Finally(c, Throw(HttpError(status)))
     ELSE /\ pc' = [pc EXCEPT ![c] = "awaitJson"]
          /\ UNCHANGED <<timer, outcome>>
  /\ UNCHANGED <<config_vars, input, aborted, raised, sent>>

\* The connection fails, before the response or while the body is read.
NetworkFail(c) ==
  /\ pc[c] \in {"awaitFetch", "awaitJson"}
  /\ ~aborted[c]
  /\ raised' = [raised EXCEPT ![c] = Some(NetworkError)]
  /\ Finally(c, Rethrow(NetworkError))
  /\ UNCHANGED <<config_vars, input, aborted, response, sent>>

\* The body has arrived and response.json() settles.
JsonSettle(c, body) ==
  /\ pc[c] = "awaitJson"
  /\ ~aborted[c]
  /\ response' = [response EXCEPT ![c] = Some([status |-> response[c][1].status,
                                               body |-> Some(body)])]
  /\ LET r == JsonParse(body)
     IN  IF r.ok
         THEN /\ Finally(c, ReturnJson(r.value))
              /\ UNCHANGED raised
         ELSE /\ raised' = [raised EXCEPT ![c] = Some(r.error)]
              /\ Finally(c, Rethrow(r.error))
  /\ UNCHANGED <<config_vars, input, aborted, sent>>

\* A callback that aborts through a controller the calls share.
TimerFireSharedController(c) ==
  /\ timer[c].st = "armed"
  /\ timer[c].left = 0
  /\ timer' = [timer EXCEPT ![c].st = "fired"]
  /\ aborted' = [d \in Calls |->
                  IF pc[d] \in {"awaitFetch", "awaitJson"} THEN TRUE
                  ELSE aborted[d]]
  /\ UNCHANGED <<config_vars, pc, input, response, raised, outcome, sent>>

\* A callback that does not abort the controller.
TimerFireNoAbort(c) ==
  /\ timer[c].st = "armed"
  /\ timer[c].left = 0
  /\ timer' = [timer EXCEPT ![c].st = "fired"]
  /\ UNCHANGED <<config_vars, pc, input, aborted, response, raised, outcome,
                 sent>>

\* The timer is due and its callback runs: controller.abort().
TimerFire(c) ==
  /\ timer[c].st = "armed"
  /\ timer[c].left = 0
  /\ timer' = [timer EXCEPT ![c].st = "fired"]
  /\ aborted' = [aborted EXCEPT ![c] = TRUE]
  /\ UNCHANGED <<config_vars, pc, input, response, raised, outcome, sent>>

\* The network layer honours the signal: the pending fetch or body read
\* rejects with an AbortError.
AbortReject(c) ==
  /\ pc[c] \in {"awaitFetch", "awaitJson"}
  /\ aborted[c]
  /\ raised' = [raised EXCEPT ![c] = Some(AbortError)]
  /\ Finally(c, Rethrow(AbortError))
  /\ UNCHANGED <<config_vars, input, aborted, response, sent>>

\* What the caller can make of its headers map: an entry more, the values
\* changed, the entries removed.
CallerMaps(map) ==
  {Spread(map, [k \in {"X-Late"} |-> "1"]),
   [k \in DOMAIN map |-> "changed"],
   EmptyObject} \ {map}

\* A constructor that keeps the caller's map itself as this.headers: what the
\* caller makes of the map is what the client has.
HeadersKeptByReference(map) == map

\* this.headers when the caller has made map of the headers map it passed:
\* the constructor built a new object from the entries the map had then
\* (their values are strings), so this.headers is as it was.
HeadersAfterCallerChange(map) == headers

\* After construction the caller changes the headers map it passed.
CallerChangesHeaders(map) ==
  /\ IsDefined(callerConfig.object.headers)
  /\ map \in CallerMaps(callerConfig.object.headers[1])
  /\ callerConfig' = [object |-> [callerConfig.object EXCEPT
                                    !.headers = Some(map)],
                      headersChangedAt |-> Len(sent)]
  /\ headers' = HeadersAfterCallerChange(map)
  /\ UNCHANGED <<ctor, baseUrl, timeout, pc, input, timer, aborted, response,
                 raised, outcome, sent>>

\* After construction the caller sets the baseUrl and the timeout of the
\* config object it passed: the constructor has read both (a string and a
\* number) into the fields of the instance.
CallerChangesConfig ==
  /\ callerConfig.object.baseUrl # Some("http://localhost:4000")
  /\ callerConfig' = [callerConfig EXCEPT
                        !.object.baseUrl = Some("http://localhost:4000"),
                        !.object.timeout = Some(1)]
  /\ UNCHANGED <<ctor, baseUrl, timeout, headers, pc, input, timer, aborted,
                 response, raised, outcome, sent>>

\* Time passes, up to the next time a pending timer is due.
Tick ==
  /\ \E c \in Calls : timer[c].st = "armed" /\ timer[c].left > 0
  /\ LET pending == {c \in Calls : timer[c].st = "armed" /\ timer[c].left > 0}
         d == CHOOSE t \in {timer[c].left : c \in pending} :
                \A c \in pending : timer[c].left >= t
     IN  timer' = [c \in Calls |->
                    IF c \in pending
                    THEN [timer[c] EXCEPT !.left = timer[c].left - d]
                    ELSE timer[c]]
  /\ UNCHANGED <<config_vars, pc, input, aborted, response, raised, outcome,
                 sent>>

(***************************************************************************)
(* The inputs of the model: the configs a client is constructed with and   *)
(* the calls its callers make.                                             *)
(***************************************************************************)
ConfigDefault ==
  [baseUrl |-> Undefined, timeout |-> Undefined, headers |-> Undefined]

ConfigCustom ==
  [baseUrl |-> Some("http://localhost:3000"), timeout |-> Some(2),
   headers |-> Some([k \in {"X-API-Key"} |-> "secret"])]

Configs == {ConfigDefault, ConfigCustom}

\* Configs that give one field each, among them the values JavaScript takes
\* for false (0 and the empty string) and a Content-Type of the caller's own.
ConfigTimeoutZero ==
  [baseUrl |-> Undefined, timeout |-> Some(0), headers |-> Undefined]

ConfigTimeout(ms) ==
  [baseUrl |-> Undefined, timeout |-> Some(ms), headers |-> Undefined]

ConfigEmptyBaseUrl ==
  [baseUrl |-> Some(""), timeout |-> Undefined, headers |-> Undefined]

ConfigContentType ==
  [baseUrl |-> Undefined, timeout |-> Undefined,
   headers |-> Some([k \in {"Content-Type", "User-Agent"} |->
                       IF k = "Content-Type" THEN "text/plain"
                       ELSE "MyApp/1.0.0"])]

ConfigEmptyHeaders ==
  [baseUrl |-> Undefined, timeout |-> Undefined, headers |-> Some(EmptyObject)]

AllConfigs ==
  Configs \cup {ConfigTimeoutZero, ConfigTimeout(5000), ConfigEmptyBaseUrl,
                ConfigContentType, ConfigEmptyHeaders}

Sku1 == <<"1", ";", "6">>

Sku2 == <<"a", "/", "b">>

Sku3 == <<"a", "?", "b", "#", "c", "&", "d">>

SkuDots == <<".", ".">>

In(m, p) == [m |-> m, p |-> p]

PriceDBInputs ==
  {In("health", <<>>), In("getItems", <<>>), In("getLatestPrices", <<>>),
   In("getCacheStats", <<>>),
   In("getPrices", [limit |-> Undefined, offset |-> Undefined]),
   In("getPrices", [limit |-> Some(5), offset |-> Some(2)]),
   In("getItem", [sku |-> Sku1]),
   In("getItem", [sku |-> Sku2]),
   In("getItemHistory",
      [sku |-> Sku1, options |-> [start |-> Some(1), end |-> Some(2)]]),
   In("getItemStats", [sku |-> Sku1]),
   In("getItemsBulk", [skus |-> <<>>]),
   In("getItemsBulk", [skus |-> <<Sku1, Sku2>>]),
   In("getSnapshot", [timestamp |-> 1700000000]),
   In("search", [query |-> <<"a", " ", "b">>, limit |-> Undefined]),
   In("search", [query |-> <<"a">>, limit |-> Some(5)]),
   In("compareItems", [sku1 |-> Sku1, sku2 |-> Sku2])}

SpellsInputs ==
  {In("predict", [spells |-> <<"E", "x">>, item |-> <<"S", " ", "R">>]),
   In("predictSpellItem", [item_name |-> <<"S", " ", "R">>, spell_ids |-> <<>>]),
   In("predictSpellItem",
      [item_name |-> <<"R">>, spell_ids |-> <<8901, 8902>>]),
   In("getSpellValue", [ids |-> <<"1", ",", "2">>]),
   In("getSpellAnalytics", <<>>),
   In("getItemSpellPremium", [item |-> <<"R">>, ids |-> <<"1", ",", "2">>]),
   In("spellIdToName", [id |-> 8901]),
   In("spellNameToId", [name |-> <<"E", "x">>]),
   In("getSpells", <<>>), In("getFetcherStatus", <<>>), In("health", <<>>),
   In("getStats", <<>>), In("getStatusProxy", <<>>)}

GraphInputs ==
  {In("getGraphUrl",
      [sku |-> Sku1,
       options |-> [header |-> Undefined, height |-> Undefined,
                    width |-> Undefined]]),
   In("getGraphUrl",
      [sku |-> Sku1,
       options |-> [header |-> Some(FALSE), height |-> Some(400),
                    width |-> Undefined]]),
   In("getGraphUrl",
      [sku |-> Sku2,
       options |-> [header |-> Some(FALSE), height |-> Some(400),
                    width |-> Undefined]])}

\* Every method of the client's class.
Inputs ==
  IF ctor.kind = "PriceDBClient" THEN PriceDBInputs \cup GraphInputs
  ELSE SpellsInputs

\* The calls that are made together with other calls: of one class the local
\* method and GETs with and without a query string, of the other a GET with
\* a query string and a POST.
CoreInputs ==
  IF ctor.kind = "PriceDBClient"
  THEN {In("getPrices", [limit |-> Undefined, offset |-> Undefined]),
        In("getPrices", [limit |-> Some(5), offset |-> Some(2)]),
        In("search", [query |-> <<"a", " ", "b">>, limit |-> Undefined]),
        In("getGraphUrl",
           [sku |-> Sku1,
            options |-> [header |-> Some(FALSE), height |-> Some(400),
                         width |-> Undefined]]),
        In("getGraphUrl",
           [sku |-> Sku2,
            options |-> [header |-> Some(FALSE), height |-> Some(400),
                         width |-> Undefined]])}
  ELSE {In("predict", [spells |-> <<"E", "x">>, item |-> <<"S", " ", "R">>]),
        In("predictSpellItem",
           [item_name |-> <<"R">>, spell_ids |-> <<8901, 8902>>])}

\* More arguments of the methods that map options, lists and identifiers:
\* pagination as in the README (an offset of 0 too), each history filter
\* alone, both and none, lists of one, of two the other way round and of the
\* same twice, identifiers with the delimiters of a URL and of dots only, and
\* display flags as in the README, one alone, and with the values true and
\* 0.
ArgumentInputs ==
  {In("getPrices", [limit |-> Some(100), offset |-> Some(0)]),
   In("getPrices", [limit |-> Some(100), offset |-> Some(100)]),
   In("getPrices", [limit |-> Undefined, offset |-> Some(2)]),
   In("getPrices", [limit |-> Some(5), offset |-> Undefined]),
   In("getItemHistory",
      [sku |-> Sku1, options |-> [start |-> Undefined, end |-> Undefined]]),
   In("getItemHistory",
      [sku |-> Sku1, options |-> [start |-> Some(1), end |-> Undefined]]),
   In("getItemHistory",
      [sku |-> Sku2, options |-> [start |-> Undefined, end |-> Some(2)]]),
   In("getItemHistory",
      [sku |-> Sku1, options |-> [start |-> Some(0), end |-> Some(5)]]),
   In("getItemsBulk", [skus |-> <<Sku1>>]),
   In("getItemsBulk", [skus |-> <<Sku2, Sku1>>]),
   In("getItemsBulk", [skus |-> <<Sku1, Sku1>>]),
   In("getItem", [sku |-> Sku3]),
   In("getItem", [sku |-> SkuDots]),
   In("getItemHistory",
      [sku |-> Sku3, options |-> [start |-> Some(1), end |-> Some(2)]]),
   In("getItemStats", [sku |-> Sku2]),
   In("compareItems", [sku1 |-> Sku2, sku2 |-> Sku3]),
   In("compareItems", [sku1 |-> SkuDots, sku2 |-> Sku1]),
   In("getGraphUrl",
      [sku |-> Sku3,
       options |-> [header |-> Undefined, height |-> Undefined,
                    width |-> Undefined]]),
   In("getGraphUrl",
      [sku |-> Sku1,
       options |-> [header |-> Some(FALSE), height |-> Some(400),
                    width |-> Some(<<"1", "0", "0", "%">>)]]),
   In("getGraphUrl",
      [sku |-> Sku1,
       options |-> [header |-> Undefined, height |-> Undefined,
                    width |-> Some(<<"1", "0", "0", "%">>)]]),
   In("getGraphUrl",
      [sku |-> Sku1,
       options |-> [header |-> Some(TRUE), height |-> Some(400),
                    width |-> Undefined]]),
   In("getGraphUrl",
      [sku |-> Sku1,
       options |-> [header |-> Some(FALSE), height |-> Some(0),
                    width |-> Undefined]])}

\* Every method of the client's class, with every argument of the model.
AllInputs ==
  IF ctor.kind = "PriceDBClient" THEN Inputs \cup ArgumentInputs ELSE Inputs

\* Calls a run makes when every method may be called.
MaxMethodCalls == 1

(***************************************************************************)
(* The specifications.                                                     *)
(***************************************************************************)
\* The state when the constructor has returned and no call was made.
InitWith(kind, config) ==
  /\ ctor = [kind |-> kind, config |-> config]
  /\ baseUrl = Constructor(kind, config).baseUrl
  /\ timeout = Constructor(kind, config).timeout
  /\ headers = Constructor(kind, config).headers
  /\ callerConfig = [object |-> config, headersChangedAt |-> 0]
  /\ pc = [c \in Calls |-> "idle"]
  /\ input = [c \in Calls |-> Undefined]
  /\ timer = [c \in Calls |-> NoTimer]
  /\ aborted = [c \in Calls |-> FALSE]
  /\ response = [c \in Calls |-> Undefined]
  /\ raised = [c \in Calls |-> Undefined]
  /\ outcome = [c \in Calls |-> Undefined]
  /\ sent = <<>>

Init == \E kind \in Kinds, config \in Configs : InitWith(kind, config)

\* What the server, the network and the event loop do.
Environment ==
  \/ \E c \in Calls, status \in Statuses : FetchResolve(c, status)
  \/ \E c \in Calls : NetworkFail(c)
  \/ \E c \in Calls, body \in Bodies : JsonSettle(c, body)
  \/ \E c \in Calls : TimerFire(c)
  \/ \E c \in Calls : AbortReject(c)
  \/ Tick

\* Calls in flight together, of the core methods.
Next ==
  \/ \E c \in Calls, inp \in CoreInputs : Invoke(c, inp)
  \/ Environment

Spec == Init /\ [][Next]_vars

\* Calls of every method.
NextMethods ==
  \/ \E c \in 1..MaxMethodCalls, inp \in Inputs : Invoke(c, inp)
  \/ Environment

MethodsSpec == Init /\ [][NextMethods]_vars

\* The event loop runs a timer that is due and delivers the rejection of an
\* aborted fetch, and time passes; the server need not ever answer.
EventLoopFairness ==
  /\ WF_vars(Tick)
  /\ \A c \in Calls : WF_vars(TimerFire(c)) /\ WF_vars(AbortReject(c))

LiveMethodsSpec == MethodsSpec /\ EventLoopFairness

\* Calls of every method with every argument.
NextArguments ==
  \/ \E c \in 1..MaxMethodCalls, inp \in AllInputs : Invoke(c, inp)
  \/ Environment

ArgumentsSpec == Init /\ [][NextArguments]_vars

\* Calls of the core methods by a caller that goes on using the config
\* object it constructed the client with.
NextCaller ==
  \/ \E c \in 1..MaxMethodCalls, inp \in CoreInputs : Invoke(c, inp)
  \/ Environment
  \/ \E map \in CallerMaps(IF IsDefined(callerConfig.object.headers)
                            THEN callerConfig.object.headers[1]
                            ELSE EmptyObject) : CallerChangesHeaders(map)
  \/ CallerChangesConfig

CallerSpec == Init /\ [][NextCaller]_vars

\* Calls of every method on clients constructed with every config.
InitConfigs == \E kind \in Kinds, config \in AllConfigs : InitWith(kind, config)

ConfigSpec == InitConfigs /\ [][NextMethods]_vars

(***************************************************************************)
(* The properties.                                                         *)
(***************************************************************************)
InFlight(c) == pc[c] \in {"awaitFetch", "awaitJson"}

Done(c) == pc[c] = "done"

\* The call is one of a network endpoint method.
IsNetworkCall(c) == IsDefined(input[c]) /\ input[c][1].m # "getGraphUrl"

Responded(c) == IsDefined(response[c])

Status(c) == response[c][1].status

Failed(c, error) == Done(c) /\ outcome[c] = Some(Throw(error))

Returned(c) == Done(c) /\ IsDefined(outcome[c]) /\ outcome[c][1].type = "return"

\* The server has not answered call c and the connection has not failed.
ServerSilent(c) == ~Responded(c) /\ raised[c] # Some(NetworkError)

\* The call ended by its timer: the timer had run its full delay, the
\* controller was aborted and the caller got the AbortError.
TimedOut(c) ==
  /\ timer[c].st = "fired"
  /\ timer[c].left = 0
  /\ timer[c].delay = timeout
  /\ aborted[c]
  /\ Failed(c, AbortError)

\* C1: whatever endpoint method is called and whatever timeout T the client
\* has, no call in flight stays in flight forever, and a call that has ended
\* without the server having answered has ended by its timer: the timer fired
\* when T had passed (and not before), the request was aborted and the caller
\* got the failure.
C1_SilentServerTimesOut ==
  /\ [](\A c \in Calls :
          /\ timer[c].st = "fired" =>
               timer[c].left = 0 /\ timer[c].delay = timeout /\ aborted[c]
          /\ IsNetworkCall(c) /\ Done(c) /\ ServerSilent(c) => TimedOut(c))
  /\ \A c \in Calls : InFlight(c) ~> Done(c)

\* A call that the server never answered has ended by its timer.
C1_Witness ==
  \E c \in Calls : IsNetworkCall(c) /\ ServerSilent(c) /\ TimedOut(c)

\* C2: for every endpoint method, a response whose status is outside 200..299
\* ends the call with the error "HTTP error! status: <status>", and never
\* with a returned value.
C2_NonSuccessStatusFails ==
  \A c \in Calls :
    Responded(c) /\ Status(c) \notin 200..299 =>
      /\ Failed(c, [name |-> "Error",
                    message |-> "HTTP error! status: " \o NumToString(Status(c))])
      /\ ~Returned(c)

\* A call answered with a 429 has failed with the error that names the 429.
C2_Witness ==
  \E c \in Calls :
    /\ IsNetworkCall(c) /\ Responded(c) /\ Status(c) = 429
    /\ Failed(c, [name |-> "Error", message |-> "HTTP error! status: 429"])

\* C3: a call that has ended, on whatever path, has no pending timer: the
\* timer was cleared (or had fired) when the outcome reached the caller.
C3_NoTimerAfterEnd ==
  \A c \in Calls : Done(c) \/ IsDefined(outcome[c]) => timer[c].st # "armed"

\* One call has returned a value and another has failed, both with their
\* timers cleared.
C3_Witness ==
  \E c, d \in Calls :
    /\ Returned(c) /\ timer[c].st = "cleared"
    /\ Done(d) /\ outcome[d][1].type = "throw" /\ timer[d].st = "cleared"

\* What of call c the other calls must leave alone.
CallState(c) ==
  <<pc[c], input[c], timer[c].st, aborted[c], response[c], raised[c],
    outcome[c]>>

\* C4: with calls in flight together, every step changes the state of at most
\* one call (its position, timer, controller, response and outcome) and no
\* request already on the wire; and the controller of a call is aborted only
\* in the step in which that call's own timer, being due, fires.
C4_CallsIndependent ==
  [][/\ Cardinality({c \in Calls : CallState(c)' # CallState(c)}) <= 1
     /\ \A i \in 1..Len(sent) : Len(sent') >= i /\ sent'[i] = sent[i]
     /\ \A c \in Calls :
          aborted'[c] /\ ~aborted[c] =>
            timer[c].st = "armed" /\ timer[c].left = 0 /\ timer'[c].st = "fired"
    ]_vars

\* One call has ended by its timer while another, started with it, is
\* in flight with its body awaited, its timer pending and not aborted.
C4_Witness ==
  \E c, d \in Calls :
    /\ c # d /\ TimedOut(c)
    /\ pc[d] = "awaitJson" /\ ~aborted[d] /\ timer[d].st = "armed"
    /\ timer[d].left = 0

\* What a call with the arguments of call c sends from a client that has
\* made no call before.
FirstRequest(c) ==
  LET call == EndpointCall(ctor.kind, input[c][1])
  IN  [url |-> Constructor(ctor.kind, ctor.config).baseUrl \o call.endpoint,
       method |-> IF IsDefined(call.options.method)
                  THEN call.options.method[1] ELSE "GET",
       body |-> call.options.body,
       headers |-> Constructor(ctor.kind, ctor.config).headers]

\* C5: the request a call issues depends on the construction-time config and
\* on the call's own arguments alone: it is the request the same call issues
\* on a client that made no call before, and two calls with the same
\* arguments issue the same request whatever calls were made before each.
C5_RequestFromOwnArguments ==
  \A i \in 1..Len(sent) :
    /\ sent[i].url = FirstRequest(sent[i].call).url
    /\ sent[i].init.method = FirstRequest(sent[i].call).method
    /\ sent[i].init.body = FirstRequest(sent[i].call).body
    /\ sent[i].init.headers = FirstRequest(sent[i].call).headers
    /\ \A j \in 1..Len(sent) :
         input[sent[i].call] = input[sent[j].call] =>
           sent[i].url = sent[j].url /\ sent[i].init = sent[j].init

\* After a search with a query, a getPrices without options has been sent
\* with no query string.
C5_Witness ==
  /\ Len(sent) = 2
  /\ input[sent[1].call][1].m = "search"
  /\ sent[1].url = "https://pricedb.io/api/search?q=a+b"
  /\ input[sent[2].call][1] =
       In("getPrices", [limit |-> Undefined, offset |-> Undefined])
  /\ sent[2].url = "https://pricedb.io/api/prices"

\* C6: in every state the base URL, the timeout and the default headers of
\* the client are what the constructor made them.
C6_ConfigurationReadOnly ==
  /\ baseUrl = Constructor(ctor.kind, ctor.config).baseUrl
  /\ timeout = Constructor(ctor.kind, ctor.config).timeout
  /\ headers = Constructor(ctor.kind, ctor.config).headers

\* A client made with a config of its own has had a call return and another
\* call time out.
C6_Witness ==
  /\ ctor.config = ConfigCustom
  /\ \E c, d \in Calls : c # d /\ Returned(c) /\ IsNetworkCall(c) /\ TimedOut(d)

RequestsOf(c) == Cardinality({i \in 1..Len(sent) : sent[i].call = c})

\* C7: every call of an endpoint method has put exactly one request on the
\* wire, while it is in flight and after it has ended on whatever outcome;
\* and a call whose round trip has failed (a status outside 200..299, an
\* error of the network layer or of the parser) has ended: it waits for no
\* second attempt.
C7_OneRequestPerCall ==
  \A c \in Calls :
    /\ IsNetworkCall(c) => RequestsOf(c) = 1
    /\ ~IsNetworkCall(c) => RequestsOf(c) = 0
    /\ IsDefined(raised[c]) \/ (Responded(c) /\ Status(c) \notin 200..299) =>
         Done(c) /\ outcome[c][1].type = "throw"

\* One call has failed on a 500 and another on a network failure, each with
\* its one request.
C7_Witness ==
  \E c, d \in Calls :
    /\ Responded(c) /\ Status(c) = 500 /\ Failed(c, HttpError(500))
    /\ Failed(d, NetworkError)
    /\ RequestsOf(c) = 1 /\ RequestsOf(d) = 1

\* C8: a call answered with 429 is not failed by that response (the client
\* deals with the rate limit itself).
C8_RateLimitHandled ==
  \A c \in Calls :
    Responded(c) /\ Status(c) = 429 =>
      ~(Done(c) /\ outcome[c][1].type = "throw")

\* C9: an error the network layer raised (a network failure, an abort) or the
\* JSON parser raised on a success-status response is what the caller gets:
\* the call has failed with that very error and has returned no value.
C9_ErrorsPropagateUnchanged ==
  \A c \in Calls :
    IsDefined(raised[c]) => Failed(c, raised[c][1]) /\ ~Returned(c)

\* A call whose 200 response had a body that is no JSON has failed with the
\* parser's SyntaxError.
C9_Witness ==
  \E c \in Calls :
    /\ Responded(c) /\ Status(c) = 200
    /\ IsDefined(raised[c]) /\ raised[c][1].name = "SyntaxError"
    /\ Failed(c, raised[c][1])

\* C10: for every endpoint method, when the status is in 200..299 and the
\* body is valid JSON, the caller gets the parsed body and nothing else; the
\* item of the round-trip scenario comes back field by field.
C10_ParsedBodyReturned ==
  \A c \in Calls :
    (/\ Responded(c) /\ Status(c) \in 200..299
     /\ IsDefined(response[c][1].body)
     /\ JsonParse(response[c][1].body[1]).ok) =>
      /\ Done(c)
      /\ outcome[c] = Some([type |-> "return",
                            value |-> JsonParse(response[c][1].body[1]).value])
      /\ response[c][1].body[1] = ItemJson =>
           outcome[c][1].value =
             [name |-> "Test Item", sku |-> "1;6",
              buy |-> [keys |-> 1, metal |-> 2],
              sell |-> [keys |-> 1, metal |-> 3],
              source |-> "x", time |-> 1700000000]

\* A call has returned the item of the round-trip scenario.
C10_Witness ==
  \E c \in Calls :
    /\ IsNetworkCall(c) /\ Returned(c)
    /\ response[c][1].body = Some(ItemJson)
    /\ outcome[c][1].value.time = 1700000000
    /\ outcome[c][1].value.buy.metal = 2

\* The headers map given at construction (none given: no entries).
GivenHeaders ==
  IF IsDefined(ctor.config.headers) THEN ctor.config.headers[1] ELSE EmptyObject

\* C11: for every headers map H given at construction, the headers of every
\* request have Content-Type: application/json unless H has the key
\* Content-Type, in which case they have H's value for it; every other entry
\* of H is sent as given, and nothing else is sent.
C11_DefaultContentTypeKept ==
  \A i \in 1..Len(sent) :
    LET S == sent[i].init.headers
    IN  /\ DOMAIN S = DOMAIN GivenHeaders \cup {"Content-Type"}
        /\ S["Content-Type"] =
             IF "Content-Type" \in DOMAIN GivenHeaders
             THEN GivenHeaders["Content-Type"] ELSE "application/json"
        /\ \A k \in DOMAIN GivenHeaders : S[k] = GivenHeaders[k]

\* A client given a Content-Type and a User-Agent of its own has sent a
\* request with both, and with the caller's Content-Type.
C11_Witness ==
  /\ ctor.config = ConfigContentType
  /\ Len(sent) >= 1
  /\ sent[1].init.headers["Content-Type"] = "text/plain"
  /\ sent[1].init.headers["User-Agent"] = "MyApp/1.0.0"

\* C12: the timer of every call was set with the timeout given at
\* construction, whatever its value, and with 10000 ms only when none was
\* given.
C12_TimerHasGivenTimeout ==
  \A c \in Calls :
    timer[c].st # "none" =>
      /\ IsDefined(ctor.config.timeout) =>
           timer[c].delay = ctor.config.timeout[1]
      /\ ~IsDefined(ctor.config.timeout) => timer[c].delay = 10000

\* C13: the URL of every request is the baseUrl given at construction,
\* whatever string it is, followed by the endpoint path, and the default of
\* the client's class followed by the path only when none was given.
C13_UrlIsGivenBaseUrlAndPath ==
  \A i \in 1..Len(sent) :
    LET path == EndpointCall(ctor.kind, input[sent[i].call][1]).endpoint
    IN  /\ IsDefined(ctor.config.baseUrl) =>
             sent[i].url = ctor.config.baseUrl[1] \o path
        /\ ~IsDefined(ctor.config.baseUrl) =>
             sent[i].url = (IF ctor.kind = "PriceDBClient"
                            THEN "https://pricedb.io"
                            ELSE "https://spell.pricedb.io") \o path

IsGraphCall(c) == IsDefined(input[c]) /\ input[c][1].m = "getGraphUrl"

\* The options {header: false, height: 400}.
ChartOptions ==
  [header |-> Some(FALSE), height |-> Some(400), width |-> Undefined]

\* C14: on a client with base URL https://pricedb.io every call of
\* getGraphUrl(id, {header: false, height: 400}) has returned
\* https://pricedb.io/api/graph/<encoded id>?header=false&height=400,
\* whatever calls were made before it, and two calls of getGraphUrl with
\* the same arguments have returned the same string.
C14_GraphUrlDeterministic ==
  /\ \A c \in Calls :
       (/\ IsGraphCall(c) /\ baseUrl = "https://pricedb.io"
        /\ input[c][1].p.options = ChartOptions) =>
         /\ input[c][1].p.sku = <<"1", ";", "6">> =>
              outcome[c] = Some([type |-> "return", value |->
                "https://pricedb.io/api/graph/1%3B6?header=false&height=400"])
         /\ input[c][1].p.sku = <<"a", "/", "b">> =>
              outcome[c] = Some([type |-> "return", value |->
                "https://pricedb.io/api/graph/a%2Fb?header=false&height=400"])
         /\ input[c][1].p.sku \in {<<"1", ";", "6">>, <<"a", "/", "b">>}
  /\ \A c, d \in Calls :
       IsGraphCall(c) /\ IsGraphCall(d) /\ input[c] = input[d] =>
         outcome[c] = outcome[d]

\* After a search was sent, getGraphUrl has returned the chart URL of the
\* first identifier.
C14_Witness ==
  /\ Len(sent) = 1 /\ sent[1].call = 1
  /\ sent[1].url = "https://pricedb.io/api/search?q=a+b"
  /\ IsGraphCall(2)
  /\ outcome[2] = Some([type |-> "return", value |->
       "https://pricedb.io/api/graph/1%3B6?header=false&height=400"])

\* C15: the step in which getGraphUrl is called returns its string at once
\* and puts no request on the wire, sets no timer, touches no controller and
\* leaves the base URL, the timeout and the headers of the client and the
\* state of every other call as they were.
C15_GraphUrlLocal ==
  [][\A c \in Calls :
       ~IsDefined(input[c]) /\ IsDefined(input'[c])
       /\ input'[c][1].m = "getGraphUrl" =>
         /\ pc'[c] = "done" /\ outcome'[c][1].type = "return"
         /\ sent' = sent /\ timer' = timer /\ aborted' = aborted
         /\ timer'[c].st = "none"
         /\ baseUrl' = baseUrl /\ timeout' = timeout /\ headers' = headers
         /\ \A d \in Calls \ {c} : CallState(d)' = CallState(d)
    ]_vars

\* getGraphUrl has returned while another call is in flight with its timer
\* pending, and the one request on the wire is that call's.
C15_Witness ==
  \E c, d \in Calls :
    /\ IsGraphCall(c) /\ Returned(c) /\ timer[c].st = "none" /\ ~aborted[c]
    /\ pc[d] = "awaitFetch" /\ timer[d].st = "armed"
    /\ Len(sent) = 1 /\ sent[1].call = d

\* The method and the arguments of the call that sent the i-th request.
InputOf(i) == input[sent[i].call][1]

\* The JSON text {"skus": [...]} of the lists of identifiers of the model.
BulkBodyText(skus) ==
  CASE skus = <<>> -> "{\"skus\":[]}"
    [] skus = <<<<"1", ";", "6">>>> -> "{\"skus\":[\"1;6\"]}"
    [] skus = <<<<"1", ";", "6">>, <<"a", "/", "b">>>> ->
         "{\"skus\":[\"1;6\",\"a/b\"]}"
    [] skus = <<<<"a", "/", "b">>, <<"1", ";", "6">>>> ->
         "{\"skus\":[\"a/b\",\"1;6\"]}"
    [] skus = <<<<"1", ";", "6">>, <<"1", ";", "6">>>> ->
         "{\"skus\":[\"1;6\",\"1;6\"]}"

\* C16: every call of getItemsBulk, with the empty list too, has put exactly
\* one request on the wire from the step in which it was called on (so
\* before any error could reach the caller): a POST to /api/items-bulk whose
\* body is the JSON object with the whole list in the given order, and with
\* the empty list for the empty list.
C16_BulkSendsWholeList ==
  /\ \A c \in Calls :
       IsDefined(input[c]) /\ input[c][1].m = "getItemsBulk" =>
         RequestsOf(c) = 1
  /\ \A i \in 1..Len(sent) :
       InputOf(i).m = "getItemsBulk" =>
         /\ sent[i].url = baseUrl \o "/api/items-bulk"
         /\ sent[i].init.method = "POST"
         /\ sent[i].init.body = Some(BulkBodyText(InputOf(i).p.skus))

\* A bulk lookup of the empty list is in flight with its one request, whose
\* body has the empty list.
C16_Witness ==
  \E c \in Calls :
    /\ input[c] = Some([m |-> "getItemsBulk", p |-> [skus |-> <<>>]])
    /\ pc[c] = "awaitFetch" /\ ~IsDefined(outcome[c])
    /\ Len(sent) = 1 /\ sent[1].call = c /\ sent[1].init.method = "POST"
    /\ sent[1].init.body = Some("{\"skus\":[]}")

\* The JSON texts the POST-style prediction sends for the options of the
\* model.
PredictSpellItemBodyText(options) ==
  CASE options.spell_ids = <<>> -> "{\"item_name\":\"S R\",\"spell_ids\":[]}"
    [] options.spell_ids = <<8901, 8902>> ->
         "{\"item_name\":\"R\",\"spell_ids\":[8901,8902]}"

\* C17: a request is a POST exactly when it is one of getItemsBulk (of
\* PriceDBClient) or of predictSpellItem (of SpellsClient), and then it has
\* the JSON text of the arguments as its body; the request of every other
\* endpoint method is a GET without a body.
C17_TwoPostEndpoints ==
  \A i \in 1..Len(sent) :
    /\ sent[i].init.method \in {"GET", "POST"}
    /\ sent[i].init.method = "POST" <=>
         \/ ctor.kind = "PriceDBClient" /\ InputOf(i).m = "getItemsBulk"
         \/ ctor.kind = "SpellsClient" /\ InputOf(i).m = "predictSpellItem"
    /\ sent[i].init.method = "GET" => sent[i].init.body = <<>>
    /\ sent[i].init.method = "POST" =>
         sent[i].init.body =
           IF ctor.kind = "PriceDBClient"
           THEN <<BulkBodyText(InputOf(i).p.skus)>>
           ELSE <<PredictSpellItemBodyText(InputOf(i).p)>>

\* The POST-style prediction has been sent as a POST with its JSON body (the
\* GET-style prediction, on another run, as a GET with a query string).
C17_Witness ==
  /\ ctor.kind = "SpellsClient" /\ Len(sent) = 1
  /\ InputOf(1).m = "predictSpellItem"
  /\ sent[1].url = baseUrl \o "/api/spell/predict-spell-item"
  /\ sent[1].init.method = "POST"
  /\ sent[1].init.body = <<"{\"item_name\":\"R\",\"spell_ids\":[8901,8902]}">>

\* The query string that names each option the caller supplied, a and then
\* b, with its value.
SuppliedQuery(nameA, a, nameB, b) ==
  LET qa == nameA \o "=" \o (IF a # <<>> THEN NumToString(a[1]) ELSE "")
      qb == nameB \o "=" \o (IF b # <<>> THEN NumToString(b[1]) ELSE "")
  IN  CASE a # <<>> /\ b # <<>> -> "?" \o qa \o "&" \o qb
        [] a # <<>> /\ b = <<>> -> "?" \o qa
        [] a = <<>> /\ b # <<>> -> "?" \o qb
        [] OTHER -> ""

\* C18: the request of getPrices is /api/prices followed by ? and limit=<value>
\* and/or offset=<value>, in that order, for each of the two options the
\* caller supplied, whatever non-negative integer its value, and /api/prices
\* alone when the caller supplied neither.
C18_PricesQueryHasSuppliedOptions ==
  \A i \in 1..Len(sent) :
    InputOf(i).m = "getPrices" =>
      sent[i].url = baseUrl \o "/api/prices"
        \o SuppliedQuery("limit", InputOf(i).p.limit,
                         "offset", InputOf(i).p.offset)

\* The identifier as encodeURIComponent writes it.
EncodedSkuText(sku) ==
  CASE sku = <<"1", ";", "6">> -> "1%3B6"
    [] sku = <<"a", "/", "b">> -> "a%2Fb"

\* C19: the request of getItemHistory is /api/item-history/<encoded sku>
\* followed by start=<value> exactly when the caller supplied start and by
\* end=<value> exactly when the caller supplied end, whatever timestamps
\* they are, and by no ? when the caller supplied neither.
C19_HistoryFiltersIndependent ==
  \A i \in 1..Len(sent) :
    InputOf(i).m = "getItemHistory" =>
      sent[i].url = baseUrl \o "/api/item-history/"
        \o EncodedSkuText(InputOf(i).p.sku)
        \o SuppliedQuery("start", InputOf(i).p.options.start,
                         "end", InputOf(i).p.options.end)

\* The body of the response of call c was read: it is awaited, it has
\* arrived or the parser has raised an error on it.
BodyRead(c) ==
  \/ pc[c] = "awaitJson"
  \/ Responded(c) /\ IsDefined(response[c][1].body)
  \/ IsDefined(raised[c]) /\ raised[c][1].name = "SyntaxError"

\* C20: the steps of a call come in one order.  The step that puts the
\* request on the wire leaves the call's timer armed with the client's
\* timeout, and no response comes before the request; a body is read only of
\* a response whose status was found to be in 200..299; and a call answered
\* with another status has failed with the status error, its body never
\* awaited, read or parsed.
C20_StepsInOrder ==
  /\ [][Len(sent') > Len(sent) =>
         /\ Len(sent') = Len(sent) + 1
         /\ timer[sent'[Len(sent')].call].st = "none"
         /\ timer'[sent'[Len(sent')].call] =
              [st |-> "armed", delay |-> timeout, left |-> timeout]
         /\ ~Responded(sent'[Len(sent')].call)]_vars
  /\ [](\A c \in Calls :
          /\ Responded(c) => RequestsOf(c) = 1 /\ timer[c].st # "none"
          /\ BodyRead(c) => Responded(c) /\ Status(c) \in 200..299
          /\ Responded(c) /\ Status(c) \notin 200..299 =>
               /\ ~BodyRead(c)
               /\ Done(c)
               /\ outcome[c] = Some([type |-> "throw", error |->
                      [name |-> "Error",
                       message |-> "HTTP error! status: "
                                     \o NumToString(Status(c))]]))

\* A call answered with a 404 has failed on the status, with no body read,
\* its timer having been armed and cleared.
C20_Witness ==
  \E c \in Calls :
    /\ Responded(c) /\ Status(c) = 404 /\ response[c][1].body = <<>>
    /\ ~IsDefined(raised[c])
    /\ Failed(c, HttpError(404))
    /\ timer[c].st = "cleared" /\ timer[c].delay = timeout

\* The response of call c had a success status and its body has not arrived.
BodyPending(c) ==
  /\ Responded(c) /\ Status(c) \in 200..299
  /\ response[c][1].body = <<>>

\* C21: the timer of a call covers the reading of the body.  While the body
\* of a success response is awaited the timer is still pending, or has fired
\* and aborted the request; once the request is aborted the call returns no
\* value: its next step is the failure with the AbortError; and a call that
\* has ended with its body still pending, the connection not having failed,
\* has ended by its timer, when the timeout had passed.
C21_TimerCoversBody ==
  /\ [](\A c \in Calls :
          /\ pc[c] = "awaitJson" =>
               /\ BodyPending(c)
               /\ timer[c].delay = timeout
               /\ \/ timer[c].st = "armed" /\ ~aborted[c]
                  \/ timer[c].st = "fired" /\ timer[c].left = 0 /\ aborted[c]
          /\ aborted[c] => ~Returned(c)
          /\ Done(c) /\ BodyPending(c) /\ raised[c] # Some(NetworkError) =>
               TimedOut(c))
  /\ [][\A c \in Calls :
         pc[c] = "awaitJson" /\ aborted[c] /\ pc'[c] # pc[c] =>
           /\ pc'[c] = "done"
           /\ outcome'[c] = Some(Throw(AbortError))]_vars

\* A call whose 200 status arrived in time has ended by its timer, its body
\* never having arrived.
C21_Witness ==
  \E c \in Calls :
    /\ Responded(c) /\ Status(c) = 200 /\ response[c][1].body = <<>>
    /\ TimedOut(c)
    /\ outcome[c] = Some(Throw(AbortError))

\* The call has ended otherwise than by an abort: its response and body
\* were complete, or its round trip failed, before its timer was due.
EndedInTime(c) == Done(c) /\ ~aborted[c]

\* C22: a call that has returned a value was never aborted, and is not
\* aborted afterwards: once a call has ended unaborted its controller stays
\* unaborted and its timer never fires.  The signal of a call fires at most
\* once: a timer that has fired stays fired (it is not set again) and an
\* aborted controller stays aborted.
C22_NoAbortOfCompletedCall ==
  /\ [](\A c \in Calls :
          /\ Returned(c) => ~aborted[c]
          /\ Returned(c) /\ IsNetworkCall(c) => timer[c].st = "cleared")
  /\ [][\A c \in Calls :
         /\ EndedInTime(c) =>
              ~aborted'[c] /\ timer'[c].st # "fired" /\ timer'[c] = timer[c]
         /\ timer[c].st = "fired" => timer'[c] = timer[c] /\ aborted'[c]
         /\ aborted[c] => aborted'[c]]_vars

\* A call has returned its value unaborted, its timer cleared with time
\* left, while the timer of the other call has fired.
C22_Witness ==
  \E c, d \in Calls :
    /\ c # d
    /\ Returned(c) /\ IsNetworkCall(c) /\ ~aborted[c]
    /\ timer[c].st = "cleared"
    /\ timer[d].st = "fired" /\ aborted[d]

\* C23: every call of an endpoint method ends, whatever the server does and
\* also when it does nothing; a call has an outcome exactly when it has
\* ended, the outcome is either a returned value or a thrown error, and once
\* the caller has it it does not change.
C23_EveryCallEndsOnce ==
  /\ [](\A c \in Calls :
          /\ Done(c) <=> IsDefined(outcome[c])
          /\ IsDefined(outcome[c]) =>
               \/ outcome[c][1].type = "return"
                    /\ DOMAIN outcome[c][1] = {"type", "value"}
               \/ outcome[c][1].type = "throw"
                    /\ DOMAIN outcome[c][1] = {"type", "error"})
  /\ [][\A c \in Calls :
         IsDefined(outcome[c]) => outcome'[c] = outcome[c] /\ pc'[c] = "done"
      ]_vars
  /\ \A c \in Calls :
       (IsDefined(input[c]) /\ IsNetworkCall(c)) ~> IsDefined(outcome[c])

\* A call whose connection dropped while the body of its 200 response was
\* read has ended with the network error as its one outcome.
C23_Witness ==
  \E c \in Calls :
    /\ IsNetworkCall(c) /\ Responded(c) /\ Status(c) = 200
    /\ response[c][1].body = <<>>
    /\ raised[c] = Some(NetworkError)
    /\ Done(c) /\ outcome[c] = Some(Throw(NetworkError))

\* The text of an identifier as one path segment: every character that
\* delimits a part of a URL percent-encoded, the others as they are.
SegmentText(sku) ==
  CASE sku = <<"1", ";", "6">> -> "1%3B6"
    [] sku = <<"a", "/", "b">> -> "a%2Fb"
    [] sku = <<"a", "?", "b", "#", "c", "&", "d">> -> "a%3Fb%23c%26d"
    [] sku = <<".", ".">> -> ".."

\* C24: the path requested by getItem, getItemHistory, getItemStats and
\* compareItems is the fixed prefix of the method followed by the identifier
\* as one segment (by the two identifiers of compareItems as two segments,
\* sku1 and then sku2), whatever the identifier, with a query string only
\* from the options of getItemHistory; and the URL getGraphUrl returns is
\* the base URL, /api/graph/ and the identifier as one segment.
C24_IdentifierIsOneSegment ==
  /\ \A i \in 1..Len(sent) :
       /\ InputOf(i).m = "getItem" =>
            sent[i].path = "/api/item/" \o SegmentText(InputOf(i).p.sku)
       /\ InputOf(i).m = "getItemStats" =>
            sent[i].path = "/api/item-stats/" \o SegmentText(InputOf(i).p.sku)
       /\ InputOf(i).m = "compareItems" =>
            sent[i].path = "/api/compare/" \o SegmentText(InputOf(i).p.sku1)
                             \o "/" \o SegmentText(InputOf(i).p.sku2)
       /\ (/\ InputOf(i).m = "getItemHistory"
           /\ InputOf(i).p.options = [start |-> <<1>>, end |-> <<2>>]) =>
            sent[i].path = "/api/item-history/"
                             \o SegmentText(InputOf(i).p.sku)
                             \o "?start=1&end=2"
  /\ \A c \in Calls :
       (/\ IsGraphCall(c)
        /\ input[c][1].p.options =
             [header |-> <<>>, height |-> <<>>, width |-> <<>>]) =>
         outcome[c][1].value =
           baseUrl \o "/api/graph/" \o SegmentText(input[c][1].p.sku)

\* The parts joined by &.
RECURSIVE JoinedByAmpersand(_)
JoinedByAmpersand(parts) ==
  IF parts = <<>> THEN ""
  ELSE IF Len(parts) = 1 THEN parts[1]
  ELSE parts[1] \o "&" \o JoinedByAmpersand(Tail(parts))

\* One query parameter for each display flag the caller supplied, in the
\* order header, height, width.
SuppliedFlags(options) ==
  (IF options.header # <<>>
   THEN <<"header=" \o (IF options.header[1] THEN "true" ELSE "false")>>
   ELSE <<>>)
  \o (IF options.height # <<>>
      THEN <<"height=" \o NumToString(options.height[1])>> ELSE <<>>)
  \o (IF options.width # <<>>
      THEN <<"width=" \o (CASE options.width[1] = <<"1", "0", "0", "%">> ->
                                 "100%25")>>
      ELSE <<>>)

\* C25: the URL getGraphUrl returns is the base URL, /api/graph/ and the
\* encoded identifier, followed by ? and one parameter for each display flag
\* the caller supplied, in the order header, height, width, and by no ? when
\* the caller supplied none; and two calls with the same arguments have
\* returned the same URL.
C25_GraphUrlHasSuppliedFlags ==
  /\ \A c \in Calls :
       IsGraphCall(c) =>
         outcome[c][1].value =
           baseUrl \o "/api/graph/" \o SegmentText(input[c][1].p.sku)
             \o (IF SuppliedFlags(input[c][1].p.options) = <<>> THEN ""
                 ELSE "?" \o JoinedByAmpersand(
                                SuppliedFlags(input[c][1].p.options)))
  /\ \A c, d \in Calls :
       IsGraphCall(c) /\ IsGraphCall(d) /\ input[c] = input[d] =>
         outcome[c] = outcome[d]

\* The headers of a client constructed with the headers map H.
HeadersOf(H) ==
  [k \in DOMAIN H \cup {"Content-Type"} |->
     IF k \in DOMAIN H THEN H[k] ELSE "application/json"]

\* C26: whatever the caller has made of the headers map and of the config
\* object since construction, the headers of the client and of every request
\* are those of the map as it was at construction (with the default
\* Content-Type), and the client has not taken the base URL or the timeout
\* the caller has set in the config object since.
C26_HeadersCopiedAtConstruction ==
  /\ headers = HeadersOf(GivenHeaders)
  /\ \A i \in 1..Len(sent) : sent[i].init.headers = HeadersOf(GivenHeaders)
  /\ baseUrl # "http://localhost:4000" /\ timeout # 1

\* The caller has removed the entries of the map it constructed the client
\* with, and the request sent after that has the entry the map had at
\* construction.
C26_Witness ==
  /\ ctor.config.headers = <<[k \in {"X-API-Key"} |-> "secret"]>>
  /\ callerConfig.object.headers = <<EmptyObject>>
  /\ Len(sent) > callerConfig.headersChangedAt
  /\ sent[Len(sent)].init.headers =
       [k \in {"Content-Type", "X-API-Key"} |->
          IF k = "X-API-Key" THEN "secret" ELSE "application/json"]

====
